---- MODULE Spec2Model ----
(***************************************************************************)
(* Signal-resolution engine of the digital logic simulator:                *)
(* Circuit.update_circuit_state (the per-frame tick), its graph builder,   *)
(* its reachability pass, Clock.update and Node.toggle.                    *)
(*                                                                         *)
(* A point is a pair <<x, y>> of grid coordinates.  A Python list is a     *)
(* sequence; None is the empty sequence <<>> and a present signature s is  *)
(* the one-element sequence <<s>>.  Circuit.on_points starts as the empty  *)
(* list and is a set after the first tick; only membership is ever asked   *)
(* of it, so it is a set throughout.                                       *)
(***************************************************************************)
EXTENDS Integers, Sequences, FiniteSets, TLC

\* The distance between neighbouring grid points.
GRID_SPACING == 100

\* The iteration cap of update_circuit_state (`if iter > 10000`).
IterCap == 10000

\* The frequency of a clock the editor places.
CLOCK_FREQUENCY == 60

\* Bounds of the model.
MaxParts == 3
MaxFreq == 2
MaxEdges == 3

VARIABLES
    wires,          \* Circuit.wires: list of [start_point, end_point, state]
    nodes,          \* Circuit.nodes: list of [position, node_type, state]
    transistors,    \* Circuit.transistors: list of [position, transistor_type, orientation, state]
    clocks,         \* Circuit.clocks: list of [position, state, frequency, frame_counter]
    on_points,      \* Circuit.on_points
    pc,             \* "idle" (between frames), "loop" (inside the while loop), "done" (tick returned)
    iter,           \* local iter of update_circuit_state
    previous_states,            \* local, <<>> is None
    previous_previous_states,   \* local, <<>> is None
    current_states,             \* local, <<>> before the first iteration
    printed,        \* the messages printed by the tick in progress (or the last one)
    calls,          \* history: per clock, the ticks entered since it was placed,
                    \* counted modulo its full period of 2 * frequency ticks
    snap,           \* history: the circuit as the tick in progress found it, when that
                    \* tick directly follows a tick that printed nothing
    instances,      \* further Circuit objects of the process, each a record of its own
                    \* fields and of the locals of its update_circuit_state call
    call            \* a call of propagate_signals or build_connectivity_graph made on
                    \* its own: its arguments and, once it has returned, its result

vars == <<wires, nodes, transistors, clocks, on_points, pc, iter, previous_states,
          previous_previous_states, current_states, printed, calls, snap, instances,
          call>>

-----------------------------------------------------------------------------
(* Components *)

Wire(start_point, end_point) ==
    [start_point |-> start_point, end_point |-> end_point, state |-> FALSE]

Node(position, node_type) ==
    [position |-> position, node_type |-> node_type, state |-> FALSE]

Transistor(position, transistor_type, orientation) ==
    [position |-> position, transistor_type |-> transistor_type,
     orientation |-> orientation, state |-> (transistor_type # "n-type")]

Clock(position, frequency) ==
    [position |-> position, state |-> FALSE, frequency |-> frequency, frame_counter |-> 0]

\* Mutant: the counter has to pass the frequency, not reach it.
ClockUpdate_OneLate(c) ==
    IF c.frame_counter + 1 > c.frequency
    THEN [c EXCEPT !.state = ~c.state, !.frame_counter = 0]
    ELSE [c EXCEPT !.frame_counter = c.frame_counter + 1]

\* Mutant: a toggle leaves the counter running.
ClockUpdate_NoReset(c) ==
    LET counter == c.frame_counter + 1
        toggle_interval == c.frequency
    IN  IF counter >= toggle_interval
        THEN [c EXCEPT !.state = ~c.state, !.frame_counter = counter]
        ELSE [c EXCEPT !.frame_counter = counter]

\* Clock.update
ClockUpdate(c) ==
    LET counter == c.frame_counter + 1
        toggle_interval == c.frequency
    IN  IF counter >= toggle_interval
        THEN [c EXCEPT !.state = ~c.state, !.frame_counter = 0]
        ELSE [c EXCEPT !.frame_counter = counter]

\* Mutant: toggle flips a node of either type.
NodeToggle_AnyNode(n) == [n EXCEPT !.state = ~n.state]

\* Node.toggle
NodeToggle(n) ==
    IF n.node_type = "input" THEN [n EXCEPT !.state = ~n.state] ELSE n

-----------------------------------------------------------------------------
(* Circuit.get_state_at_point, with the energized lookup given *)

\* Mutant: every lookup finds the point not energized (a lookup that is always empty).
get_state_at_point_Cold(onp, point) == FALSE

get_state_at_point(onp, point) == point \in onp

\* Mutant: the orientation is ignored, every transistor lies along x.
SourcePoint_AlongX(t) == <<t.position[1] - GRID_SPACING, t.position[2]>>

\* The two terminals of a transistor (build_connectivity_graph).
SourcePoint(t) ==
    IF t.orientation = "horizontal"
    THEN <<t.position[1] - GRID_SPACING, t.position[2]>>
    ELSE <<t.position[1], t.position[2] - GRID_SPACING>>

DrainPoint(t) ==
    IF t.orientation = "horizontal"
    THEN <<t.position[1] + GRID_SPACING, t.position[2]>>
    ELSE <<t.position[1], t.position[2] + GRID_SPACING>>

\* Mutant: an n-type conducts whatever its gate.
GraphConducting_NAlways(t, onp) ==
    t.transistor_type = "n-type" \/ ~get_state_at_point(onp, t.position)

\* Mutant: a p-type conducts on an energized gate, like an n-type.
GraphConducting_PLikeN(t, onp) == get_state_at_point(onp, t.position)

\* Mutant: an n-type conducts on a gate that is not energized, like a p-type.
GraphConducting_NLikeP(t, onp) == ~get_state_at_point(onp, t.position)

\* The conduction decision of build_connectivity_graph.
GraphConducting(t, onp) ==
    LET gate_state == get_state_at_point(onp, t.position)
    IN  IF t.transistor_type = "n-type" /\ gate_state THEN TRUE
        ELSE IF t.transistor_type = "p-type" /\ ~gate_state THEN TRUE
        ELSE FALSE

\* Mutant: a wire is entered under its start point only.
AdjacencyList_OneWay(ws, ts, onp, p) ==
    LET W[i \in 0..Len(ws)] ==
            IF i = 0 THEN <<>>
            ELSE W[i-1]
                 \o (IF ws[i].start_point = p THEN <<ws[i].end_point>> ELSE <<>>)
        T[i \in 0..Len(ts)] ==
            IF i = 0 THEN W[Len(ws)]
            ELSE IF GraphConducting(ts[i], onp)
                 THEN T[i-1]
                      \o (IF SourcePoint(ts[i]) = p THEN <<DrainPoint(ts[i])>> ELSE <<>>)
                      \o (IF DrainPoint(ts[i]) = p THEN <<SourcePoint(ts[i])>> ELSE <<>>)
                 ELSE T[i-1]
    IN  T[Len(ts)]

\* The neighbour list graph[p] after build_connectivity_graph: the wires in list
\* order (end under start, then start under end), then the conducting transistors
\* in list order (drain under source, then source under drain).
AdjacencyList(ws, ts, onp, p) ==
    LET W[i \in 0..Len(ws)] ==
            IF i = 0 THEN <<>>
            ELSE W[i-1]
                 \o (IF ws[i].start_point = p THEN <<ws[i].end_point>> ELSE <<>>)
                 \o (IF ws[i].end_point = p THEN <<ws[i].start_point>> ELSE <<>>)
        T[i \in 0..Len(ts)] ==
            IF i = 0 THEN W[Len(ws)]
            ELSE IF GraphConducting(ts[i], onp)
                 THEN T[i-1]
                      \o (IF SourcePoint(ts[i]) = p THEN <<DrainPoint(ts[i])>> ELSE <<>>)
                      \o (IF DrainPoint(ts[i]) = p THEN <<SourcePoint(ts[i])>> ELSE <<>>)
                 ELSE T[i-1]
    IN  T[Len(ts)]

\* The keys of the defaultdict after build_connectivity_graph.
GraphKeys(ws, ns, cs, ts, onp) ==
    {ws[i].start_point : i \in DOMAIN ws} \cup {ws[i].end_point : i \in DOMAIN ws}
    \cup {ns[i].position : i \in DOMAIN ns}
    \cup {cs[i].position : i \in DOMAIN cs}
    \cup {SourcePoint(ts[i]) : i \in {j \in DOMAIN ts : GraphConducting(ts[j], onp)}}
    \cup {DrainPoint(ts[i]) : i \in {j \in DOMAIN ts : GraphConducting(ts[j], onp)}}

\* Circuit.build_connectivity_graph: point -> list of neighbours.
build_connectivity_graph(ws, ns, cs, ts, onp) ==
    [p \in GraphKeys(ws, ns, cs, ts, onp) |-> AdjacencyList(ws, ts, onp, p)]

\* graph[current] of a defaultdict(list): a missing key reads as the empty list.
GraphGet(graph, p) == IF p \in DOMAIN graph THEN graph[p] ELSE <<>>

\* The while loop of propagate_signals.
RECURSIVE PropagateLoop(_, _, _)
PropagateLoop(graph, queue, visited) ==
    IF queue = <<>> THEN visited
    ELSE LET current == Head(queue)
             nbrs == GraphGet(graph, current)
             R[i \in 0..Len(nbrs)] ==
                 IF i = 0 THEN [q |-> Tail(queue), v |-> visited]
                 ELSE IF nbrs[i] \notin R[i-1].v
                      THEN [q |-> Append(R[i-1].q, nbrs[i]), v |-> R[i-1].v \cup {nbrs[i]}]
                      ELSE R[i-1]
         IN  PropagateLoop(graph, R[Len(nbrs)].q, R[Len(nbrs)].v)

\* Mutant: a neighbour is marked visited but never queued, so only the sources'
\* own neighbours are reached.
propagate_signals_NoQueue(graph, input_nodes) ==
    {input_nodes[i] : i \in DOMAIN input_nodes}
    \cup UNION {{GraphGet(graph, input_nodes[i])[j] : j \in DOMAIN GraphGet(graph, input_nodes[i])}
                : i \in DOMAIN input_nodes}

\* Mutant: visited starts empty, so a source is in the result only if an edge
\* leads to it.
propagate_signals_SourcesUnmarked(graph, input_nodes) ==
    PropagateLoop(graph, input_nodes, {})

\* Mutant: visited starts from the points that were energized before, so a point
\* once energized stays in the result.
propagate_signals_Accumulating(graph, input_nodes) ==
    PropagateLoop(graph, input_nodes, on_points \cup {input_nodes[i] : i \in DOMAIN input_nodes})

\* Circuit.propagate_signals
propagate_signals(graph, input_nodes) ==
    PropagateLoop(graph, input_nodes, {input_nodes[i] : i \in DOMAIN input_nodes})

\* The positions of a list of components, in list order.
Positions(s) == [i \in DOMAIN s |-> s[i].position]

\* Mutant: the clocks are read as they were before this tick advanced them (a
\* clock whose counter is 0 has just been toggled).
AllInputPoints_Lagging(ns, cs) ==
    Positions(SelectSeq(ns, LAMBDA n : n.node_type = "input" /\ n.state))
    \o Positions(SelectSeq(cs, LAMBDA c : c.state # (c.frame_counter = 0)))

\* all_input_points of update_circuit_state
AllInputPoints(ns, cs) ==
    Positions(SelectSeq(ns, LAMBDA n : n.node_type = "input" /\ n.state))
    \o Positions(SelectSeq(cs, LAMBDA c : c.state))

\* Mutant: the gate is looked up in the on_points of the pass before.
TransistorState_Stale(t, onp) ==
    LET gate_state == get_state_at_point(on_points, t.position)
    IN  (t.transistor_type = "n-type" /\ gate_state)
        \/ (t.transistor_type = "p-type" /\ ~gate_state)

\* The transistor state assignment at the bottom of the loop body.
TransistorState(t, onp) ==
    LET gate_state == get_state_at_point(onp, t.position)
    IN  (t.transistor_type = "n-type" /\ gate_state)
        \/ (t.transistor_type = "p-type" /\ ~gate_state)

\* Mutant: a wire that has been on stays on.
WireState_Sticky(w, onp) == w.state \/ w.start_point \in onp \/ w.end_point \in onp

\* The wire state assignment (in the loop body and after the loop).
WireState(w, onp) == w.start_point \in onp \/ w.end_point \in onp

\* Mutant: the state of every node, input nodes included, is overwritten.
NodeState_AllNodes(n, onp) == n.position \in onp

\* The node state assignment (in the loop body and after the loop).
NodeState(n, onp) == IF n.node_type = "output" THEN n.position \in onp ELSE n.state

UpdateWires(ws, onp) == [i \in DOMAIN ws |-> [ws[i] EXCEPT !.state = WireState(ws[i], onp)]]
UpdateNodes(ns, onp) == [i \in DOMAIN ns |-> [ns[i] EXCEPT !.state = NodeState(ns[i], onp)]]
UpdateTransistors(ts, onp) ==
    [i \in DOMAIN ts |-> [ts[i] EXCEPT !.state = TransistorState(ts[i], onp)]]

\* Mutant: the signature holds the transistor states only.
Signature_FlagsOnly(onp, ts) == <<{}, [i \in DOMAIN ts |-> ts[i].state]>>

\* current_states of update_circuit_state
Signature(onp, ts) == <<onp, [i \in DOMAIN ts |-> ts[i].state]>>

\* Mutant: the signature is compared with the previous pass's only.
Repeats_PrevOnly(cur, prev, prevprev) == cur = prev

\* The break test of the loop body.
Repeats(cur, prev, prevprev) == cur = prev \/ cur = prevprev

\* Mutant: the oscillation message is printed on every break.
OscillationSeen_AnyBreak(cur, prevprev) == TRUE

\* Mutant: no break is reported as an oscillation.
OscillationSeen_Silent(cur, prevprev) == FALSE

\* The test that guards the oscillation message.
OscillationSeen(cur, prevprev) == cur = prevprev

-----------------------------------------------------------------------------
(* update_circuit_state, one step per pass through the loop head *)

NoSnap == [valid |-> FALSE, wires |-> <<>>, nodes |-> <<>>, transistors |-> <<>>,
           on_points |-> {}]

\* Mutant: the entry keeps the last signature of the tick before as the previous one.
TickStart_KeepingHistory ==
    /\ pc \in {"idle", "done"}
    /\ clocks' = [i \in DOMAIN clocks |-> ClockUpdate(clocks[i])]
    /\ calls' = [i \in DOMAIN calls |-> (calls[i] + 1) % (2 * clocks[i].frequency)]
    /\ previous_states' = current_states
    /\ previous_previous_states' = <<>>
    /\ current_states' = <<>>
    /\ iter' = 0
    /\ printed' = <<>>
    /\ snap' = IF pc = "done" /\ printed = <<>>
                THEN [valid |-> TRUE, wires |-> wires, nodes |-> nodes,
                      transistors |-> transistors, on_points |-> on_points]
                ELSE NoSnap
    /\ pc' = "loop"
    /\ UNCHANGED <<wires, nodes, transistors, on_points, instances, call>>

\* Mutant: the entry also empties on_points.
TickStart_Clearing ==
    /\ pc \in {"idle", "done"}
    /\ clocks' = [i \in DOMAIN clocks |-> ClockUpdate(clocks[i])]
    /\ calls' = [i \in DOMAIN calls |-> (calls[i] + 1) % (2 * clocks[i].frequency)]
    /\ previous_states' = <<>>
    /\ previous_previous_states' = <<>>
    /\ current_states' = <<>>
    /\ iter' = 0
    /\ printed' = <<>>
    /\ snap' = NoSnap
    /\ pc' = "loop"
    /\ on_points' = {}
    /\ UNCHANGED <<wires, nodes, transistors, instances, call>>

\* Entry: the clocks are advanced and the locals initialised.
TickStart ==
    /\ pc \in {"idle", "done"}
    /\ clocks' = [i \in DOMAIN clocks |-> ClockUpdate(clocks[i])]
    /\ calls' = [i \in DOMAIN calls |-> (calls[i] + 1) % (2 * clocks[i].frequency)]
    /\ previous_states' = <<>>
    /\ previous_previous_states' = <<>>
    /\ current_states' = <<>>
    /\ iter' = 0
    /\ printed' = <<>>
    /\ snap' = IF pc = "done" /\ printed = <<>>
                THEN [valid |-> TRUE, wires |-> wires, nodes |-> nodes,
                      transistors |-> transistors, on_points |-> on_points]
                ELSE NoSnap
    /\ pc' = "loop"
    /\ UNCHANGED <<wires, nodes, transistors, on_points, instances, call>>

\* The two messages update_circuit_state prints.
TooLong == "SOLVING CIRCUIT TOOK TOO LONG"
Oscillation == "CIRCUIT OSSCILATION DETECTED!"

\* Mutant: the cap test lets one more pass through.
CapReached_OneLate(it) == it > IterCap + 1

\* The cap test at the head of the loop.
CapReached(it) == it > IterCap

\* Mutant: the code after the loop leaves the wires as the loop left them.
FinalWires_Skipped(ws, onp) == ws

\* The code after the loop: the wire states.
FinalWires(ws, onp) == UpdateWires(ws, onp)

\* The code after the loop: the output node states.
FinalNodes(ns, onp) == UpdateNodes(ns, onp)

\* One pass: the cap test, then the loop body up to its break or its end; a break
\* runs the code after the loop and returns.
IterateLoop ==
    /\ pc = "loop"
    /\ IF CapReached(iter)
       THEN /\ printed' = Append(printed, TooLong)
            /\ wires' = FinalWires(wires, on_points)
            /\ nodes' = FinalNodes(nodes, on_points)
            /\ pc' = "done"
            /\ UNCHANGED <<transistors, on_points, iter, previous_states,
                           previous_previous_states, current_states>>
       ELSE LET graph == build_connectivity_graph(wires, nodes, clocks, transistors, on_points)
                onp == propagate_signals(graph, AllInputPoints(nodes, clocks))
                cur == <<Signature(onp, transistors)>>
            IN  /\ iter' = iter + 1
                /\ on_points' = onp
                /\ current_states' = cur
                /\ IF Repeats(cur, previous_states, previous_previous_states)
                   THEN /\ printed' = IF OscillationSeen(cur, previous_previous_states)
                                      THEN Append(printed, Oscillation)
                                      ELSE printed
                        /\ wires' = FinalWires(wires, onp)
                        /\ nodes' = FinalNodes(nodes, onp)
                        /\ pc' = "done"
                        /\ UNCHANGED <<transistors, previous_states, previous_previous_states>>
                   ELSE /\ previous_previous_states' = previous_states
                        /\ previous_states' = cur
                        /\ wires' = UpdateWires(wires, onp)
                        /\ nodes' = UpdateNodes(nodes, onp)
                        /\ transistors' = UpdateTransistors(transistors, onp)
                        /\ UNCHANGED <<printed, pc>>
    /\ UNCHANGED <<clocks, calls, snap, instances, call>>

\* Circuit.node_at_position: the index of the first node at the position, 0 for None.
node_at_position(ns, position) ==
    LET at == {i \in DOMAIN ns : ns[i].position = position}
    IN  IF at = {} THEN 0 ELSE CHOOSE i \in at : \A j \in at : i <= j

\* handle_event, left click on a grid position that holds an input node: the node
\* is toggled and nothing is placed.
ClickInput(position) ==
    /\ pc \in {"idle", "done"}
    /\ LET i == node_at_position(nodes, position)
       IN  /\ i # 0
           /\ nodes[i].node_type = "input"
           /\ nodes' = [nodes EXCEPT ![i] = NodeToggle(nodes[i])]
    /\ pc' = "idle"
    /\ snap' = NoSnap
    /\ UNCHANGED <<wires, transistors, clocks, on_points, iter, previous_states,
                   previous_previous_states, current_states, printed, calls, instances,
                   call>>

-----------------------------------------------------------------------------
(* The circuits the editor has built before the first tick *)

\* The k-th point of the row y = 0.
Pt(k) == <<k * GRID_SPACING, 0>>

\* The sequences of length k over lo..hi that do not decrease (strict: that increase).
RECURSIVE Ascending(_, _, _, _)
Ascending(lo, hi, k, strict) ==
    IF k = 0 THEN {<<>>}
    ELSE UNION {{<<x>> \o s : s \in Ascending(IF strict THEN x + 1 ELSE x, hi, k - 1, strict)}
                : x \in lo..hi}

\* The lists of k components the options give, in option order.
Picks(options, k, strict) ==
    {[i \in 1..k |-> options[s[i]]] : s \in Ascending(1, Len(options), k, strict)}

\* Wires between two points of the row, as the editor's drag creates them.
WireOptions ==
    <<Wire(Pt(0), Pt(1)), Wire(Pt(1), Pt(2)), Wire(Pt(2), Pt(3)),
      Wire(Pt(0), Pt(2)), Wire(Pt(1), Pt(3))>>

\* Input and output nodes on the row.
NodeOptions ==
    <<Node(Pt(0), "input"), Node(Pt(0), "output"), Node(Pt(1), "input"), Node(Pt(1), "output"),
      Node(Pt(2), "input"), Node(Pt(2), "output"), Node(Pt(3), "input"), Node(Pt(3), "output")>>

\* Transistors as the editor places them (horizontal), both terminals on the row.
TransistorOptions ==
    <<Transistor(Pt(1), "n-type", "horizontal"), Transistor(Pt(1), "p-type", "horizontal"),
      Transistor(Pt(2), "n-type", "horizontal"), Transistor(Pt(2), "p-type", "horizontal")>>

\* No call of a solver function on its own is in progress.
NoCall == [op |-> "none"]

\* The locals and history of a circuit that has not been ticked.
Fresh ==
    /\ on_points = {}
    /\ pc = "idle"
    /\ iter = 0
    /\ previous_states = <<>>
    /\ previous_previous_states = <<>>
    /\ current_states = <<>>
    /\ printed = <<>>
    /\ calls = [i \in DOMAIN clocks |-> 0]
    /\ snap = NoSnap
    /\ instances = <<>>
    /\ call = NoCall

\* Any circuit of at most MaxParts wires, nodes and transistors on the row
\* (duplicate wires and stacked components included), no clock.
InitParts ==
    /\ \E kw \in 0..MaxParts : \E kn \in 0..(MaxParts - kw) : \E kt \in 0..(MaxParts - kw - kn) :
          /\ wires \in Picks(WireOptions, kw, FALSE)
          /\ nodes \in Picks(NodeOptions, kn, TRUE)
          /\ transistors \in Picks(TransistorOptions, kt, TRUE)
    /\ clocks = <<>>
    /\ Fresh

\* Two transistors in a ring: the p-type at Pt(1) joins Pt(0) and Pt(2), the
\* n-type at Pt(2) joins Pt(1) and Pt(3); each one's terminal is the other's gate.
RingTransistors ==
    <<Transistor(Pt(1), "p-type", "horizontal"), Transistor(Pt(2), "n-type", "horizontal")>>

\* The ring with an input node on one outer terminal, a wire from there to the
\* other outer terminal and an output node on the n-type's gate.
InitRing ==
    /\ wires = <<Wire(Pt(0), Pt(3))>>
    /\ nodes = <<Node(Pt(0), "input"), Node(Pt(2), "output")>>
    /\ transistors = RingTransistors
    /\ clocks = <<>>
    /\ Fresh

Init == InitParts \/ InitRing

Next ==
    \/ TickStart
    \/ IterateLoop
    \/ \E i \in DOMAIN nodes : ClickInput(nodes[i].position)

Spec == Init /\ [][Next]_vars

\* Clocks on the row with a frequency of 1..MaxFreq, as a file names them.
ClockOptions ==
    [j \in 1..(3 * MaxFreq) |-> Clock(Pt((j - 1) % 3), ((j - 1) \div 3) + 1)]

\* Any circuit of at most MaxParts + 1 wires, nodes and clocks (one clock at most)
\* on the first three points of the row, no transistor.
InitWires ==
    /\ \E kw \in 0..(MaxParts + 1) : \E kn \in 0..(MaxParts + 1 - kw) :
       \E kc \in 0..(IF kw + kn <= MaxParts THEN 1 ELSE 0) :
          /\ wires \in Picks(SubSeq(WireOptions, 1, 2) \o <<WireOptions[4]>>, kw, FALSE)
          /\ nodes \in Picks(SubSeq(NodeOptions, 1, 6), kn, TRUE)
          /\ clocks \in Picks(ClockOptions, kc, TRUE)
    /\ transistors = <<>>
    /\ Fresh

SpecWires == InitWires /\ [][Next]_vars

-----------------------------------------------------------------------------
(* Reachability along wires, stated without the graph *)

\* Some wire joins p and q.
WireJoins(ws, p, q) ==
    \E i \in DOMAIN ws :
        \/ ws[i].start_point = p /\ ws[i].end_point = q
        \/ ws[i].start_point = q /\ ws[i].end_point = p

WireEnds(ws) == {ws[i].start_point : i \in DOMAIN ws} \cup {ws[i].end_point : i \in DOMAIN ws}

\* The points joined to a point of S by a chain of zero or more wires.
RECURSIVE WireClosure(_, _)
WireClosure(ws, S) ==
    LET more == S \cup {q \in WireEnds(ws) : \E p \in S : WireJoins(ws, p, q)}
    IN  IF more = S THEN S ELSE WireClosure(ws, more)

\* The positions of the input nodes and the clocks that are on.
ActiveSources ==
    {nodes[i].position : i \in {j \in DOMAIN nodes : nodes[j].node_type = "input" /\ nodes[j].state}}
    \cup {clocks[i].position : i \in {j \in DOMAIN clocks : clocks[j].state}}

Outputs == {i \in DOMAIN nodes : nodes[i].node_type = "output"}

\* C1: in a circuit without transistors, after a tick an output node is on iff its
\* position is joined by a chain of zero or more wires to the position of an input
\* node that is on or of a clock that is on.
C1_WireReachability ==
    (pc = "done" /\ transistors = <<>>) =>
        \A i \in Outputs :
            nodes[i].state <=> (nodes[i].position \in WireClosure(wires, ActiveSources))

\* C1 witness: after a tick, an output is on that no single wire joins to an active
\* source (the chain has two wires at least), and the source is a clock.
C1_Witness ==
    /\ pc = "done" /\ transistors = <<>>
    /\ \E i \in Outputs :
          /\ nodes[i].state
          /\ nodes[i].position \notin ActiveSources
          /\ \A p \in ActiveSources : ~WireJoins(wires, p, nodes[i].position)
    /\ \E j \in DOMAIN clocks : clocks[j].state

-----------------------------------------------------------------------------
(* One transistor with an input node on its gate, an input node that is on on one
   terminal and an output node on the other terminal *)

GatePositions == {Pt(1), <<GRID_SPACING, GRID_SPACING>>}

InitGate ==
    /\ \E ty \in {"n-type", "p-type"} : \E o \in {"horizontal", "vertical"} :
       \E g \in GatePositions : \E swapped \in BOOLEAN :
          LET t == Transistor(g, ty, o)
              powered == IF swapped THEN DrainPoint(t) ELSE SourcePoint(t)
              lit == IF swapped THEN SourcePoint(t) ELSE DrainPoint(t)
          IN  /\ transistors = <<t>>
              /\ nodes = <<Node(g, "input"), [Node(powered, "input") EXCEPT !.state = TRUE],
                           Node(lit, "output")>>
    /\ wires = <<>>
    /\ clocks = <<>>
    /\ Fresh

SpecGate == InitGate /\ [][Next]_vars

\* The terminals of the only transistor.
Terminals == {SourcePoint(transistors[1]), DrainPoint(transistors[1])}

\* Nodes g, s, o are the gate input, the input on one terminal and the output on
\* the other terminal of the only transistor, which is of type ty.
GateConstruction(ty, g, s, o) ==
    /\ Len(transistors) = 1 /\ transistors[1].transistor_type = ty
    /\ wires = <<>> /\ clocks = <<>> /\ Len(nodes) = 3
    /\ nodes[g].node_type = "input" /\ nodes[g].position = transistors[1].position
    /\ nodes[s].node_type = "input" /\ nodes[s].position \in Terminals
    /\ nodes[o].node_type = "output" /\ nodes[o].position \in Terminals \ {nodes[s].position}

\* C2: one n-type transistor of either orientation, an input on the gate, an input
\* that is on on either terminal and an output on the other terminal: after every
\* tick the output is on exactly when the gate input is on.
C2_NTypeGating ==
    pc = "done" =>
        \A g, s, o \in DOMAIN nodes :
            (GateConstruction("n-type", g, s, o) /\ nodes[s].state)
                => (nodes[o].state <=> nodes[g].state)

\* C2 witness: a vertical n-type, powered on its drain side, has lit the output
\* after the gate input was turned on.
C2_Witness ==
    /\ pc = "done"
    /\ \E g, s, o \in DOMAIN nodes :
          /\ GateConstruction("n-type", g, s, o)
          /\ transistors[1].orientation = "vertical"
          /\ nodes[s].position = DrainPoint(transistors[1])
          /\ nodes[s].state /\ nodes[g].state /\ nodes[o].state

\* C3: the same construction with a p-type transistor: after every tick the output
\* is on exactly when the gate input is off.
C3_PTypeGating ==
    pc = "done" =>
        \A g, s, o \in DOMAIN nodes :
            (GateConstruction("p-type", g, s, o) /\ nodes[s].state)
                => (nodes[o].state <=> ~nodes[g].state)

\* C3 witness: a p-type whose gate input was on during the previous tick and is
\* off now has lit the output again.
C3_Witness ==
    /\ pc = "done"
    /\ \E g, s, o \in DOMAIN nodes :
          /\ GateConstruction("p-type", g, s, o)
          /\ nodes[s].state /\ ~nodes[g].state /\ nodes[o].state
          /\ iter > 2

-----------------------------------------------------------------------------
(* Termination and the outcome of a tick *)

\* C4: the loop body runs at most IterCap + 1 = 10,001 times in a tick (iter
\* counts the passes); every step inside the loop either returns or is one more
\* pass, so the tick returns; and a tick that is still in the loop after 10,001
\* passes returns at once with the iteration-limit message.
C4_LoopIsCapped ==
    /\ [](iter <= IterCap + 1)
    /\ [][pc = "loop" =>
            /\ (pc' = "done" \/ (pc' = "loop" /\ iter' = iter + 1))
            /\ (iter = IterCap + 1 => (pc' = "done" /\ printed' = <<TooLong>>))]_vars

\* C4 witness: a tick has returned at the cap, after 10,001 passes none of which
\* repeated the signature of the pass before it or of two passes earlier.
C4_Witness ==
    /\ pc = "done"
    /\ iter = IterCap + 1
    /\ printed = <<TooLong>>

\* The only transistor is of type ty, the only wire joins its drain terminal to its
\* gate, and the only node is an input node on its source terminal.
Feedback(ty) ==
    /\ Len(transistors) = 1 /\ transistors[1].transistor_type = ty
    /\ Len(wires) = 1
    /\ {wires[1].start_point, wires[1].end_point}
         = {DrainPoint(transistors[1]), transistors[1].position}
    /\ Len(nodes) = 1 /\ nodes[1].node_type = "input"
    /\ nodes[1].position = SourcePoint(transistors[1])
    /\ clocks = <<>>

\* C5 as claimed: a single n-type transistor with its drain wired to its gate and
\* an input node that is on on its source: the tick reports Oscillating.
C5_Original ==
    (pc = "done" /\ Feedback("n-type") /\ nodes[1].state) => printed = <<Oscillation>>

\* C5 as amended: in that circuit the tick reports no oscillation and no iteration
\* limit; it ends Converged after at most three passes of the loop, and returns.
C5_FeedbackConverges ==
    (pc = "done" /\ Feedback("n-type") /\ nodes[1].state) => (printed = <<>> /\ iter <= 3)

\* C5 witness: a tick of that circuit, with the input on, has returned.
C5_Witness ==
    pc = "done" /\ Feedback("n-type") /\ nodes[1].state /\ on_points # {}

\* C6: in a circuit with no clocks, a tick that starts right after a tick that
\* ended Converged, with no edit and no input change in between, ends with the
\* on_points and the wire, node and transistor states it started with.
C6_Idempotent ==
    (pc = "done" /\ snap.valid /\ clocks = <<>>) =>
        /\ on_points = snap.on_points
        /\ wires = snap.wires
        /\ nodes = snap.nodes
        /\ transistors = snap.transistors

\* C6 witness: such a second tick has returned in a circuit where an energized
\* gate makes an n-type transistor conduct and a wire is on.
C6_Witness ==
    /\ pc = "done" /\ snap.valid /\ clocks = <<>>
    /\ \E i \in DOMAIN transistors :
          transistors[i].transistor_type = "n-type" /\ transistors[i].state
    /\ \E i \in DOMAIN wires : wires[i].state

\* C8: a tick returns with nothing printed (Converged), with the oscillation message
\* alone or with the iteration-limit message alone.  Converged: the last signature
\* equals the previous pass's.  Oscillating: the last signature equals that of two
\* passes earlier and differs from the previous pass's.  Iteration limit: 10,001
\* passes were made.
C8_Outcome ==
    pc = "done" =>
        /\ printed \in {<<>>, <<Oscillation>>, <<TooLong>>}
        /\ printed = <<>> => (current_states = previous_states /\ iter <= IterCap + 1)
        /\ printed = <<Oscillation>> =>
              /\ current_states = previous_previous_states
              /\ current_states # previous_states
              /\ iter <= IterCap + 1
        /\ printed = <<TooLong>> => iter = IterCap + 1

\* C8 witness: a tick has returned with the oscillation message.
C8_Witness ==
    pc = "done" /\ printed = <<Oscillation>> /\ iter >= 3

\* C9: after every tick a wire is on iff one of its end points is in on_points,
\* and an output node is on iff its position is in on_points.
C9_DerivedFlags ==
    pc = "done" =>
        /\ \A i \in DOMAIN wires :
              wires[i].state <=> (wires[i].start_point \in on_points
                                  \/ wires[i].end_point \in on_points)
        /\ \A i \in Outputs : nodes[i].state <=> (nodes[i].position \in on_points)

\* C9 witness: a tick that did not converge has returned with a wire on.
C9_Witness ==
    /\ pc = "done" /\ printed = <<Oscillation>>
    /\ \E i \in DOMAIN wires : wires[i].state

\* The conduction rule: an n-type conducts iff its gate is energized, a p-type iff
\* its gate is not.
ConductionRule(t, onp) ==
    IF t.transistor_type = "n-type" THEN t.position \in onp ELSE t.position \notin onp

\* C10 as claimed: after every tick, whatever its outcome, every transistor's
\* conducting flag is its conduction rule applied to on_points.
C10_Original ==
    pc = "done" =>
        \A i \in DOMAIN transistors :
            transistors[i].state <=> ConductionRule(transistors[i], on_points)

-----------------------------------------------------------------------------
(* Clocks *)

\* The ring powered by a clock of frequency 1..MaxFreq: the ring runs while the
\* clock is on and rests while it is off.
InitClock ==
    /\ wires = <<Wire(Pt(0), Pt(3))>>
    /\ nodes = <<Node(Pt(2), "output")>>
    /\ transistors = RingTransistors
    /\ \E f \in 1..MaxFreq : clocks = <<Clock(Pt(0), f)>>
    /\ Fresh

\* The frames of a run in which the user does nothing.
NextTick ==
    \/ TickStart
    \/ IterateLoop

SpecClock == InitClock /\ [][NextTick]_vars

-----------------------------------------------------------------------------
(* The energized set, stated without the graph and the queue *)

\* A wire, or a transistor that conducts by its rule under the lookup, joins p and q.
Joined(ws, ts, lookup, p, q) ==
    \/ WireJoins(ws, p, q)
    \/ \E i \in DOMAIN ts :
          /\ ConductionRule(ts[i], lookup)
          /\ {p, q} = {SourcePoint(ts[i]), DrainPoint(ts[i])}

\* The points a wire or a transistor can join to others.
JoinPoints(ws, ts) ==
    WireEnds(ws) \cup {SourcePoint(ts[i]) : i \in DOMAIN ts} \cup {DrainPoint(ts[i]) : i \in DOMAIN ts}

\* The points joined to a point of S by a chain of zero or more wires and
\* transistors that conduct under the lookup.
RECURSIVE Closure(_, _, _, _)
Closure(ws, ts, lookup, S) ==
    LET more == S \cup {q \in JoinPoints(ws, ts) : \E p \in S : Joined(ws, ts, lookup, p, q)}
    IN  IF more = S THEN S ELSE Closure(ws, ts, lookup, more)

-----------------------------------------------------------------------------
(* A transistor gated by a clock *)

\* A horizontal transistor of either type at Pt(1) with a clock of frequency
\* 1..MaxFreq on its gate, an input node on its source terminal, an output node on
\* its drain terminal, a wire from there to Pt(3) and an input node at Pt(3).
InitBoard ==
    /\ \E ty \in {"n-type", "p-type"} : transistors = <<Transistor(Pt(1), ty, "horizontal")>>
    /\ \E f \in 1..MaxFreq : clocks = <<Clock(Pt(1), f)>>
    /\ nodes = <<Node(Pt(0), "input"), Node(Pt(2), "output"), Node(Pt(3), "input")>>
    /\ wires = <<Wire(Pt(2), Pt(3))>>
    /\ Fresh

SpecBoard == InitBoard /\ [][Next]_vars

\* What a step leaves alone: the collections' lengths and order, every position
\* and wire end point, every node type and input node state, every transistor type
\* and orientation, every clock frequency.
Kept ==
    /\ Len(wires') = Len(wires) /\ Len(nodes') = Len(nodes)
    /\ Len(transistors') = Len(transistors) /\ Len(clocks') = Len(clocks)
    /\ \A i \in DOMAIN wires :
          /\ wires'[i].start_point = wires[i].start_point
          /\ wires'[i].end_point = wires[i].end_point
    /\ \A i \in DOMAIN nodes :
          /\ nodes'[i].position = nodes[i].position
          /\ nodes'[i].node_type = nodes[i].node_type
          /\ nodes[i].node_type = "input" => nodes'[i].state = nodes[i].state
    /\ \A i \in DOMAIN transistors :
          /\ transistors'[i].position = transistors[i].position
          /\ transistors'[i].transistor_type = transistors[i].transistor_type
          /\ transistors'[i].orientation = transistors[i].orientation
    /\ \A i \in DOMAIN clocks :
          /\ clocks'[i].position = clocks[i].position
          /\ clocks'[i].frequency = clocks[i].frequency

\* C12: every step of a tick (its entry and each pass of its loop) changes at most
\* the wire states, the output node states, the transistor states, on_points and
\* the clocks' state and counter: it keeps every input node's state, every
\* position and wire end point, every transistor type and orientation, every clock
\* frequency, and the membership and order of the four collections.
C12_TickFrame == [][(pc = "loop" \/ pc' = "loop") => Kept]_vars

\* C12 witness: a tick has returned with the clock, the transistor, the wire and
\* the output all on, and an input node that is off sits on an energized point.
C12_Witness ==
    /\ pc = "done"
    /\ \E i \in DOMAIN clocks : clocks[i].state
    /\ \E i \in DOMAIN transistors : transistors[i].state
    /\ \E i \in DOMAIN wires : wires[i].state
    /\ \E i \in Outputs : nodes[i].state
    /\ \E i \in DOMAIN nodes :
          nodes[i].node_type = "input" /\ ~nodes[i].state /\ nodes[i].position \in on_points

-----------------------------------------------------------------------------
(* Several Circuit objects in one process, their ticks interleaved pass by pass *)

\* Circuit.__init__ followed by the placement of the components: the fields of a
\* Circuit object, the locals of its update_circuit_state call and, as history,
\* the object as the tick in progress found it after advancing the clocks.
Instance(ws, ns, ts, cs) ==
    [wires |-> ws, nodes |-> ns, transistors |-> ts, clocks |-> cs, on_points |-> {},
     pc |-> "idle", iter |-> 0, previous_states |-> <<>>, previous_previous_states |-> <<>>,
     current_states |-> <<>>, printed |-> <<>>, entry |-> <<>>]

\* Mutant: on_points is one attribute of the class, shared by every object.
OnPointsOf_Shared(insts, k) == insts[1].on_points

\* self.on_points, for self the k-th object.
OnPointsOf(insts, k) == insts[k].on_points

\* update_circuit_state of the object c up to the loop: the clocks are advanced and
\* the locals initialised.
EnterTick(c) ==
    [c EXCEPT !.clocks = [i \in DOMAIN c.clocks |-> ClockUpdate(c.clocks[i])],
              !.previous_states = <<>>,
              !.previous_previous_states = <<>>,
              !.current_states = <<>>,
              !.iter = 0,
              !.printed = <<>>,
              !.pc = "loop"]

\* One pass of the loop of update_circuit_state of the object c, whose on_points
\* attribute reads as energized: the cap test, then the loop body up to its break
\* or its end; a break runs the code after the loop and returns.
RunPass(c, energized) ==
    IF CapReached(c.iter)
    THEN [c EXCEPT !.printed = Append(c.printed, TooLong),
                   !.wires = FinalWires(c.wires, energized),
                   !.nodes = FinalNodes(c.nodes, energized),
                   !.pc = "done"]
    ELSE LET graph == build_connectivity_graph(c.wires, c.nodes, c.clocks, c.transistors,
                                               energized)
             onp == propagate_signals(graph, AllInputPoints(c.nodes, c.clocks))
             cur == <<Signature(onp, c.transistors)>>
         IN  IF Repeats(cur, c.previous_states, c.previous_previous_states)
             THEN [c EXCEPT !.iter = c.iter + 1,
                            !.on_points = onp,
                            !.current_states = cur,
                            !.printed = IF OscillationSeen(cur, c.previous_previous_states)
                                        THEN Append(c.printed, Oscillation)
                                        ELSE c.printed,
                            !.wires = FinalWires(c.wires, onp),
                            !.nodes = FinalNodes(c.nodes, onp),
                            !.pc = "done"]
             ELSE [c EXCEPT !.iter = c.iter + 1,
                            !.on_points = onp,
                            !.current_states = cur,
                            !.previous_previous_states = c.previous_states,
                            !.previous_states = cur,
                            !.wires = UpdateWires(c.wires, onp),
                            !.nodes = UpdateNodes(c.nodes, onp),
                            !.transistors = UpdateTransistors(c.transistors, onp)]

\* The loop of update_circuit_state of the object c run to its return with no
\* other object stepping in between.
RECURSIVE RunAlone(_)
RunAlone(c) == IF c.pc = "done" THEN c ELSE RunAlone(RunPass(c, c.on_points))

\* The k-th object enters update_circuit_state.
TickStartOf(k) ==
    /\ instances[k].pc \in {"idle", "done"}
    /\ LET entered == EnterTick([instances[k] EXCEPT !.entry = <<>>])
       IN  instances' = [instances EXCEPT ![k] = [entered EXCEPT !.entry = <<entered>>]]
    /\ UNCHANGED <<wires, nodes, transistors, clocks, on_points, pc, iter, previous_states,
                   previous_previous_states, current_states, printed, calls, snap, call>>

\* The k-th object makes one pass of its loop.
IterateLoopOf(k) ==
    /\ instances[k].pc = "loop"
    /\ instances' = [instances EXCEPT ![k] = RunPass(instances[k], OnPointsOf(instances, k))]
    /\ UNCHANGED <<wires, nodes, transistors, clocks, on_points, pc, iter, previous_states,
                   previous_previous_states, current_states, printed, calls, snap, call>>

\* The circuits of the objects: a transistor of either type at Pt(1) with a clock
\* of frequency 1..MaxFreq on its source terminal; its drain is wired back to its
\* gate, or an input node that is on sits on its gate; an output node on its drain.
InstanceOptions ==
    {Instance(ws, ns \o <<Node(Pt(2), "output")>>, <<Transistor(Pt(1), ty, "horizontal")>>,
              <<Clock(Pt(0), f)>>) :
        ws \in {<<>>, <<Wire(Pt(2), Pt(1))>>},
        ns \in {<<>>, <<[Node(Pt(1), "input") EXCEPT !.state = TRUE]>>},
        ty \in {"n-type", "p-type"},
        f \in 1..MaxFreq}

\* Two objects; the circuit of the editor itself is empty.
InitTwo ==
    /\ instances \in [1..2 -> InstanceOptions]
    /\ wires = <<>> /\ nodes = <<>> /\ transistors = <<>> /\ clocks = <<>>
    /\ on_points = {} /\ pc = "idle" /\ iter = 0
    /\ previous_states = <<>> /\ previous_previous_states = <<>> /\ current_states = <<>>
    /\ printed = <<>> /\ calls = <<>> /\ snap = NoSnap /\ call = NoCall

NextTwo == \E k \in DOMAIN instances : TickStartOf(k) \/ IterateLoopOf(k)

SpecTwo == InitTwo /\ [][NextTwo]_vars

\* The fields of an object and the messages of its last tick, without the history.
Exposed(c) == [c EXCEPT !.entry = <<>>]

-----------------------------------------------------------------------------
(* A ring of three inverters *)

\* The point in column x and row y of the grid.
At(x, y) == <<x * GRID_SPACING, y * GRID_SPACING>>

\* Three p-type transistors, one per row, each an inverter: its source terminal is
\* on the supply rail (column 0), its drain terminal is wired to the gate of the
\* next one, the third one's to the gate of the first.  An input node feeds the
\* rail and a second input node sits on the gate of the first transistor.
InitOddRing ==
    /\ transistors = [i \in 1..3 |-> Transistor(At(1, i - 1), "p-type", "horizontal")]
    /\ wires = <<Wire(At(2, 0), At(1, 1)), Wire(At(2, 1), At(1, 2)), Wire(At(2, 2), At(1, 0)),
                 Wire(At(0, 0), At(0, 1)), Wire(At(0, 1), At(0, 2))>>
    /\ nodes = <<Node(At(0, 0), "input"), Node(At(1, 0), "input")>>
    /\ clocks = <<>>
    /\ Fresh

SpecOddRing == InitOddRing /\ [][Next]_vars

\* Three p-type transistors in a ring: the drain terminal of each is wired to the
\* gate of the next.
OddRing ==
    /\ Len(transistors) = 3
    /\ \A i \in 1..3 :
          /\ transistors[i].transistor_type = "p-type"
          /\ WireJoins(wires, DrainPoint(transistors[i]), transistors[(i % 3) + 1].position)

\* Every source terminal of the ring is wired to a source that is on, and no
\* source that is on is wired to a gate.
RingSupplied ==
    /\ \A i \in DOMAIN transistors :
          SourcePoint(transistors[i]) \in WireClosure(wires, ActiveSources)
    /\ \A i \in DOMAIN transistors :
          transistors[i].position \notin WireClosure(wires, ActiveSources)

\* The stages of the ring are in step: all gates energized or none.
InStep(onp) ==
    \A i, j \in DOMAIN transistors :
        (transistors[i].position \in onp) <=> (transistors[j].position \in onp)

\* C14 as claimed: the tick of a supplied ring of three inverters is not reported
\* as Oscillating; it makes 10,001 passes and ends with the iteration-limit message.
C14_Original ==
    (pc = "done" /\ OddRing /\ RingSupplied) => (printed = <<TooLong>> /\ iter = IterCap + 1)

\* C14 as amended: the tick of a supplied ring of three inverters never ends
\* Converged.  When the stages are in step (as after a cold start) the signatures
\* alternate with period 2 and the tick ends with the oscillation message after at
\* most four passes; only when the stages are out of step does the tick make
\* 10,001 passes and end with the iteration-limit message.
C14_OddRingInStep ==
    (pc = "done" /\ OddRing /\ RingSupplied) =>
        /\ InStep(on_points) => (printed = <<Oscillation>> /\ iter <= 4)
        /\ ~InStep(on_points) => (printed = <<TooLong>> /\ iter = IterCap + 1)

\* C14 witness: the first tick of the supplied ring has returned with the
\* oscillation message, all three gates energized.
C14_Witness ==
    /\ pc = "done" /\ OddRing /\ RingSupplied
    /\ printed = <<Oscillation>>
    /\ \A i \in DOMAIN transistors : transistors[i].position \in on_points

-----------------------------------------------------------------------------
(* An output node wired to a clock *)

\* Output node i is joined to clock j by a chain of zero or more wires.
WiredToClock(i, j) ==
    nodes[i].node_type = "output" /\ nodes[i].position \in WireClosure(wires, {clocks[j].position})

\* No input node that is on and no other clock that is on is joined to clock j by
\* wires: the clock is the only source of its net.
OnlySource(j) ==
    /\ \A i \in DOMAIN nodes :
          (nodes[i].node_type = "input" /\ nodes[i].state)
              => nodes[i].position \notin WireClosure(wires, {clocks[j].position})
    /\ \A k \in DOMAIN clocks \ {j} :
          clocks[k].state => clocks[k].position \notin WireClosure(wires, {clocks[j].position})

-----------------------------------------------------------------------------
(* The stopping rules *)

\* The energized set and the transistor flags of a signature.
EnergizedOf(sig) == sig[1][1]
FlagsOf(sig) == sig[1][2]

\* The transistor flags the conduction rule gives for an energized set.
RuleFlags(onp) == [i \in DOMAIN transistors |-> ConductionRule(transistors[i], onp)]

\* C16 as claimed: the signature of a pass holds its energized set and the
\* transistor flags recomputed from that set; the tick stops Converged at the
\* first pass whose signature equals the previous pass's, that is, as soon as two
\* consecutive passes give the same energized set: the loop never goes on after
\* two such passes.
C16_Original ==
    /\ current_states # <<>> => FlagsOf(current_states) = RuleFlags(EnergizedOf(current_states))
    /\ (pc = "loop" /\ previous_states # <<>> /\ previous_previous_states # <<>>) =>
          EnergizedOf(previous_states) # EnergizedOf(previous_previous_states)
    /\ (pc = "done" /\ printed = <<>>) =>
          (previous_states # <<>> /\ EnergizedOf(current_states) = EnergizedOf(previous_states))

\* C17 as claimed: the tick stops Oscillating at the first pass whose signature
\* (its energized set with the flags recomputed from it, so in effect its energized
\* set) differs from the previous pass's and equals that of two passes earlier,
\* and the on_points it leaves is the energized set of that pass.
C17_Original ==
    /\ [][(/\ pc = "loop" /\ previous_states # <<>> /\ previous_previous_states # <<>>
           /\ on_points' = EnergizedOf(previous_previous_states)
           /\ on_points' # EnergizedOf(previous_states))
              => (pc' = "done" /\ printed' = <<Oscillation>>)]_vars
    /\ []((pc = "done" /\ printed = <<Oscillation>>) =>
             /\ on_points = EnergizedOf(current_states)
             /\ EnergizedOf(current_states) = EnergizedOf(previous_previous_states)
             /\ EnergizedOf(current_states) # EnergizedOf(previous_states))

-----------------------------------------------------------------------------
(* propagate_signals called on any adjacency mapping *)

\* The points of the mappings.
GraphPoints == {Pt(0), Pt(1), Pt(2)}

\* The lists of at most n elements of S.
Lists(S, n) == UNION {[1..k -> S] : k \in 0..n}

\* The elements of a list.
Range(seq) == {seq[i] : i \in DOMAIN seq}

\* graph[p].append(q) on a defaultdict(list).
Appended(graph, p, q) ==
    [x \in DOMAIN graph \cup {p} |-> IF x = p THEN Append(GraphGet(graph, p), q) ELSE graph[x]]

\* graph[p] on a defaultdict(list): the key is created if it is missing.
Touched(graph, p) == [x \in DOMAIN graph \cup {p} |-> GraphGet(graph, x)]

\* The defaultdict(list) after the appends of the list edges, in order, and then
\* the reads of the keys in touched.
GraphOf(edges, touched) ==
    LET G[i \in 0..Len(edges)] ==
            IF i = 0 THEN <<>> ELSE Appended(G[i-1], edges[i][1], edges[i][2])
    IN  [x \in DOMAIN G[Len(edges)] \cup touched |-> GraphGet(G[Len(edges)], x)]

\* A call of propagate_signals: any mapping made by at most MaxEdges appends (one
\* direction each, a point may be appended to itself or twice) and any keys with an
\* empty list, and any list of source points shorter than the list of all points,
\* in any order, with repetitions.
InitPropagate ==
    /\ \E edges \in Lists(GraphPoints \X GraphPoints, MaxEdges) :
       \E touched \in SUBSET GraphPoints :
       \E input_nodes \in Lists(GraphPoints, Cardinality(GraphPoints) - 1) :
          call = [op |-> "propagate_signals", graph |-> GraphOf(edges, touched),
                  input_nodes |-> input_nodes, returned |-> FALSE, result |-> {}]
    /\ wires = <<>> /\ nodes = <<>> /\ transistors = <<>> /\ clocks = <<>>
    /\ on_points = {} /\ pc = "idle" /\ iter = 0
    /\ previous_states = <<>> /\ previous_previous_states = <<>> /\ current_states = <<>>
    /\ printed = <<>> /\ calls = <<>> /\ snap = NoSnap /\ instances = <<>>

\* The call returns.
PropagateReturn ==
    /\ call.op = "propagate_signals" /\ ~call.returned
    /\ call' = [call EXCEPT !.returned = TRUE,
                            !.result = propagate_signals(call.graph, call.input_nodes)]
    /\ UNCHANGED <<wires, nodes, transistors, clocks, on_points, pc, iter, previous_states,
                   previous_previous_states, current_states, printed, calls, snap, instances>>

SpecPropagate == InitPropagate /\ [][PropagateReturn]_vars

\* The points a chain of zero or more entries of the mapping leads to from a
\* point of S; the order of the lists plays no part in it.
RECURSIVE GraphReach(_, _)
GraphReach(graph, S) ==
    LET more == S \cup UNION {Range(graph[p]) : p \in S \cap DOMAIN graph}
    IN  IF more = S THEN S ELSE GraphReach(graph, more)

\* C18: propagate_signals returns exactly the points reachable in the mapping from
\* the source points, every source point included, with or without an entry or an
\* edge of its own; the result depends on the set of sources and on the sets of
\* neighbours only, not on the order of the lists.
C18_Reachability ==
    (call.op = "propagate_signals" /\ call.returned) =>
        /\ call.result = GraphReach(call.graph, Range(call.input_nodes))
        /\ Range(call.input_nodes) \subseteq call.result

\* C18 witness: a call has returned for two sources, the first without an entry in
\* the mapping, the second with two different neighbours, and every point is in
\* the result.
C18_Witness ==
    /\ call.op = "propagate_signals" /\ call.returned
    /\ Len(call.input_nodes) = 2
    /\ call.input_nodes[1] \notin DOMAIN call.graph
    /\ call.input_nodes[2] \in DOMAIN call.graph
    /\ Cardinality(Range(call.graph[call.input_nodes[2]])) = 2
    /\ call.result = GraphPoints

-----------------------------------------------------------------------------
(* build_connectivity_graph called on any circuit and any on_points *)

\* Transistors of both types and orientations with the gate at At(1, 1) or At(2, 1).
GraphTransistorOptions ==
    <<Transistor(At(1, 1), "n-type", "horizontal"), Transistor(At(1, 1), "n-type", "vertical"),
      Transistor(At(1, 1), "p-type", "horizontal"), Transistor(At(1, 1), "p-type", "vertical"),
      Transistor(At(2, 1), "n-type", "horizontal"), Transistor(At(2, 1), "n-type", "vertical"),
      Transistor(At(2, 1), "p-type", "horizontal"), Transistor(At(2, 1), "p-type", "vertical")>>

\* Wires between terminals and gates of these transistors, one of them in both
\* directions.
GraphWireOptions ==
    <<Wire(At(0, 1), At(2, 1)), Wire(At(2, 1), At(0, 1)), Wire(At(1, 0), At(1, 2)),
      Wire(At(2, 1), At(1, 1))>>

\* A node on a gate and a node away from everything else.
GraphNodeOptions == <<Node(At(1, 1), "input"), Node(At(3, 3), "output")>>

\* The circuit object, as far as build_connectivity_graph reads it.
Self ==
    [wires |-> wires, nodes |-> nodes, transistors |-> transistors, clocks |-> clocks,
     on_points |-> on_points]

\* A call of build_connectivity_graph on a circuit of at most MaxParts - 1 wires
\* (duplicates included) and as many transistors, at most one node and one clock,
\* with any of the gates in on_points.
InitBuild ==
    /\ \E kw, kt \in 0..(MaxParts - 1) : \E kn, kc \in 0..1 :
          /\ wires \in Picks(GraphWireOptions, kw, FALSE)
          /\ transistors \in Picks(GraphTransistorOptions, kt, TRUE)
          /\ nodes \in Picks(GraphNodeOptions, kn, TRUE)
          /\ clocks \in Picks(<<Clock(At(0, 0), 1)>>, kc, TRUE)
    /\ on_points \in SUBSET {At(1, 1), At(2, 1)}
    /\ call = [op |-> "build_connectivity_graph", self |-> Self, returned |-> FALSE,
               result |-> <<>>]
    /\ pc = "idle" /\ iter = 0
    /\ previous_states = <<>> /\ previous_previous_states = <<>> /\ current_states = <<>>
    /\ printed = <<>> /\ calls = [i \in DOMAIN clocks |-> 0] /\ snap = NoSnap
    /\ instances = <<>>

\* The call returns.
BuildReturn ==
    /\ call.op = "build_connectivity_graph" /\ ~call.returned
    /\ call' = [call EXCEPT !.returned = TRUE,
                            !.result = build_connectivity_graph(wires, nodes, clocks,
                                                                transistors, on_points)]
    /\ UNCHANGED <<wires, nodes, transistors, clocks, on_points, pc, iter, previous_states,
                   previous_previous_states, current_states, printed, calls, snap, instances>>

SpecBuild == InitBuild /\ [][BuildReturn]_vars

\* How often x occurs in a list.
Count(seq, x) == Cardinality({i \in DOMAIN seq : seq[i] = x})

\* The two terminals of a transistor: its gate position one grid unit back and
\* one forth, along x when it is horizontal and along y when it is vertical.
TerminalPair(t) ==
    IF t.orientation = "horizontal"
    THEN {<<t.position[1] - GRID_SPACING, t.position[2]>>,
          <<t.position[1] + GRID_SPACING, t.position[2]>>}
    ELSE {<<t.position[1], t.position[2] - GRID_SPACING>>,
          <<t.position[1], t.position[2] + GRID_SPACING>>}

\* The wires and the conducting transistors that join p and q.
EdgesBetween(p, q) ==
    Cardinality({i \in DOMAIN wires : {wires[i].start_point, wires[i].end_point} = {p, q}})
    + Cardinality({i \in DOMAIN transistors :
                      /\ ConductionRule(transistors[i], on_points)
                      /\ TerminalPair(transistors[i]) = {p, q}})

\* C19: the mapping build_connectivity_graph returns lists q under p as often as
\* p under q, namely once per wire between p and q and once per conducting
\* transistor whose terminals are p and q (an n-type conducts iff its gate is in
\* on_points, a p-type iff it is not); the gate is never an end of its own
\* transistor's edge; every node and clock position is a key; and the call leaves
\* the circuit as it found it.
C19_GraphShape ==
    (call.op = "build_connectivity_graph" /\ call.returned) =>
        LET graph == call.result
        IN  /\ \A p, q \in DOMAIN graph :
                  /\ Count(graph[p], q) = Count(GraphGet(graph, q), p)
                  /\ p # q => Count(graph[p], q) = EdgesBetween(p, q)
                  /\ Count(graph[p], p) = 0
            /\ \A p \in DOMAIN graph : Range(graph[p]) \subseteq DOMAIN graph
            /\ \A i \in DOMAIN transistors :
                  /\ transistors[i].position \notin TerminalPair(transistors[i])
                  /\ ConductionRule(transistors[i], on_points)
                        => TerminalPair(transistors[i]) \subseteq DOMAIN graph
            /\ \A i \in DOMAIN nodes : nodes[i].position \in DOMAIN graph
            /\ \A i \in DOMAIN clocks : clocks[i].position \in DOMAIN graph
            /\ \A i \in DOMAIN wires :
                  {wires[i].start_point, wires[i].end_point} \subseteq DOMAIN graph
            /\ Self = call.self

\* C19 witness: a call has returned on a circuit with a conducting vertical n-type
\* and a horizontal p-type that does not conduct, where a wire runs parallel to a
\* conducting transistor, so that one point is listed twice under another.
C19_Witness ==
    /\ call.op = "build_connectivity_graph" /\ call.returned
    /\ \E i, j \in DOMAIN transistors :
          /\ transistors[i].transistor_type = "n-type"
          /\ transistors[i].orientation = "vertical"
          /\ ConductionRule(transistors[i], on_points)
          /\ transistors[j].transistor_type = "p-type"
          /\ transistors[j].orientation = "horizontal"
          /\ ~ConductionRule(transistors[j], on_points)
    /\ \E p, q \in DOMAIN call.result : Count(call.result[p], q) = 2

-----------------------------------------------------------------------------
(* The state a converged tick leaves *)

\* C20: when a tick has ended Converged, on_points is a fixed point: it is what
\* the active sources reach along the wires and the transistors that conduct when
\* on_points itself is the energized lookup; and every transistor's state is its
\* conduction rule applied to on_points.
C20_FixedPoint ==
    (pc = "done" /\ printed = <<>>) =>
        /\ Closure(wires, transistors, on_points, ActiveSources) = on_points
        /\ propagate_signals(build_connectivity_graph(wires, nodes, clocks, transistors, on_points),
                             AllInputPoints(nodes, clocks)) = on_points
        /\ \A i \in DOMAIN transistors :
              transistors[i].state <=> ConductionRule(transistors[i], on_points)

\* C20 witness: a tick has ended Converged after more than two passes, with an
\* n-type transistor conducting, its gate and both its terminals energized.
C20_Witness ==
    /\ pc = "done" /\ printed = <<>> /\ iter > 2
    /\ \E i \in DOMAIN transistors :
          /\ transistors[i].transistor_type = "n-type" /\ transistors[i].state
          /\ {transistors[i].position, SourcePoint(transistors[i]), DrainPoint(transistors[i])}
                \subseteq on_points

-----------------------------------------------------------------------------
(* Deletion *)

\* list.remove of the object at index i.
Removed(seq, i) == SubSeq(seq, 1, i - 1) \o SubSeq(seq, i + 1, Len(seq))

\* The index of the first component of a list at a position, 0 if there is none
\* (the first object the mouse hovers when it is over that position).
FirstAt(seq, position) ==
    LET at == {i \in DOMAIN seq : seq[i].position = position}
    IN  IF at = {} THEN 0 ELSE CHOOSE i \in at : \A j \in at : i <= j

\* Wire j lies over the whole of wire i (both on one row).
Covers(wj, wi) ==
    LET lo(w) == IF w.start_point[1] <= w.end_point[1] THEN w.start_point[1] ELSE w.end_point[1]
        hi(w) == IF w.start_point[1] <= w.end_point[1] THEN w.end_point[1] ELSE w.start_point[1]
    IN  /\ wj.start_point[2] = wj.end_point[2] /\ wi.start_point[2] = wi.end_point[2]
        /\ wj.start_point[2] = wi.start_point[2]
        /\ lo(wj) <= lo(wi) /\ hi(wi) <= hi(wj)

\* What an edit leaves alone and resets: the tick's locals stay, the frame is no
\* longer the one a tick has just returned in.
Edited ==
    /\ pc' = "idle"
    /\ snap' = NoSnap
    /\ UNCHANGED <<on_points, iter, previous_states, previous_previous_states, current_states,
                   printed, instances, call>>

\* delete_hovered_object with the mouse over node i: the first node hovered is
\* removed.
DeleteNode(i) ==
    /\ pc \in {"idle", "done"}
    /\ FirstAt(nodes, nodes[i].position) = i
    /\ nodes' = Removed(nodes, i)
    /\ Edited
    /\ UNCHANGED <<wires, transistors, clocks, calls>>

\* delete_hovered_object with the mouse over transistor i and over no node (a
\* transistor is hovered from farther away than a node).
DeleteTransistor(i) ==
    /\ pc \in {"idle", "done"}
    /\ FirstAt(transistors, transistors[i].position) = i
    /\ transistors' = Removed(transistors, i)
    /\ Edited
    /\ UNCHANGED <<wires, nodes, clocks, calls>>

\* delete_hovered_object with the mouse over clock i: no node and no transistor is
\* at its position.
DeleteClock(i) ==
    /\ pc \in {"idle", "done"}
    /\ FirstAt(clocks, clocks[i].position) = i
    /\ FirstAt(nodes, clocks[i].position) = 0
    /\ FirstAt(transistors, clocks[i].position) = 0
    /\ clocks' = Removed(clocks, i)
    /\ calls' = Removed(calls, i)
    /\ Edited
    /\ UNCHANGED <<wires, nodes, transistors>>

\* delete_hovered_object with the mouse over wire i, between two grid points: no
\* wire earlier in the list lies over it.
DeleteWire(i) ==
    /\ pc \in {"idle", "done"}
    /\ \A j \in 1..(i - 1) : ~Covers(wires[j], wires[i])
    /\ wires' = Removed(wires, i)
    /\ Edited
    /\ UNCHANGED <<nodes, transistors, clocks, calls>>

\* The frames of a run in which the user toggles inputs and deletes components.
NextDelete ==
    \/ TickStart
    \/ IterateLoop
    \/ \E i \in DOMAIN nodes : ClickInput(nodes[i].position)
    \/ \E i \in DOMAIN nodes : DeleteNode(i)
    \/ \E i \in DOMAIN transistors : DeleteTransistor(i)
    \/ \E i \in DOMAIN clocks : DeleteClock(i)
    \/ \E i \in DOMAIN wires : DeleteWire(i)

SpecDelete == InitBoard /\ [][NextDelete]_vars

\* The points joined to a point of S by a chain of zero or more wires and
\* transistors of the lists, conducting or not.
RECURSIVE PresentReach(_, _, _)
PresentReach(ws, ts, S) ==
    LET more == S \cup {q \in JoinPoints(ws, ts) : \E p \in S :
                            \/ WireJoins(ws, p, q)
                            \/ \E i \in DOMAIN ts :
                                  {p, q} = {SourcePoint(ts[i]), DrainPoint(ts[i])}}
    IN  IF more = S THEN S ELSE PresentReach(ws, ts, more)

\* C21: after every tick, also after components have been removed, every point of
\* on_points is joined to an input node or clock that is on and in its collection
\* by a chain of wires and transistors that are in their collections; what has
\* been removed neither conducts nor acts as a source.  With no source left on,
\* on_points is empty.
C21_NothingDangling ==
    pc = "done" =>
        /\ on_points \subseteq PresentReach(wires, transistors, ActiveSources)
        /\ ActiveSources = {} => on_points = {}

\* C21 witness: after a node and the wire have been removed, a tick has returned
\* with the output still on, fed by the input through the transistor, and the
\* far end of the removed wire not energized.
C21_Witness ==
    /\ pc = "done"
    /\ wires = <<>> /\ Len(nodes) = 2 /\ Len(transistors) = 1
    /\ \E i \in Outputs : nodes[i].state
    /\ Pt(3) \notin on_points

-----------------------------------------------------------------------------
(* A transistor with its drain wired to its own gate *)

\* A transistor at Pt(1) whose drain Pt(2) is wired to its gate, an input node on
\* its source Pt(0) and a second input node on its gate, in either list order and
\* with any on flags, as a file names them; an output node on the drain or none.
InitLatch ==
    /\ \E ty \in {"n-type", "p-type"} :
          transistors = <<Transistor(Pt(1), ty, "horizontal")>>
    /\ wires \in {<<Wire(Pt(2), Pt(1))>>, <<Wire(Pt(1), Pt(2))>>}
    /\ \E s \in BOOLEAN, g \in BOOLEAN, swap \in BOOLEAN, probe \in BOOLEAN :
          LET src == [Node(Pt(0), "input") EXCEPT !.state = s]
              gat == [Node(Pt(1), "input") EXCEPT !.state = g]
              out == IF probe THEN <<Node(Pt(2), "output")>> ELSE <<>>
          IN  nodes = (IF swap THEN <<gat, src>> ELSE <<src, gat>>) \o out
    /\ clocks = <<>>
    /\ Fresh

SpecLatch == InitLatch /\ [][Next]_vars

\* The input node at a point is on, in the given node list.
InputOn(ns, point) ==
    \E i \in DOMAIN ns : ns[i].node_type = "input" /\ ns[i].position = point /\ ns[i].state

\* The latch of the claim: the transistor is n-type.
Latch == transistors[1].transistor_type = "n-type"

\* The gate and drain points are energized in the given set.
Holds(onp) == {Pt(1), Pt(2)} \subseteq onp

\* C22: in the latch, a tick that has run with the gate input on ends with the gate
\* and drain points in on_points; and from any state with those two points in
\* on_points, every step (a click on the gate input, the entry of a tick, a pass
\* of its loop, its return) that has the source input on before and after leaves
\* them in on_points, and so they are there after the next tick and after every
\* later one for as long as the source input stays on.
C22_StateRetained ==
    /\ [](Latch /\ pc = "done" /\ InputOn(nodes, Pt(1)) => Holds(on_points))
    /\ [][(Latch /\ Holds(on_points) /\ InputOn(nodes, Pt(0)) /\ InputOn(nodes', Pt(0)))
             => Holds(on_points')]_vars

\* C22 witness: a tick has returned with the source input on and the gate input
\* off, and the gate and drain points are in on_points.
C22_Witness ==
    /\ Latch /\ pc = "done" /\ printed = <<>>
    /\ InputOn(nodes, Pt(0)) /\ ~InputOn(nodes, Pt(1))
    /\ Holds(on_points)
    /\ \A i \in DOMAIN wires : wires[i].state

\* C23: in the circuit made of one p-type transistor with its drain wired to its
\* gate and an input node that is on on its source, no tick runs more than four
\* passes of the loop, and every tick that has returned, the first one and every
\* later one, has printed the oscillation message and nothing else (so it ended
\* neither Converged nor at the iteration limit).
C23_PTypeFeedbackOscillates ==
    (Feedback("p-type") /\ nodes[1].state) =>
        /\ pc = "loop" => (iter <= 3 /\ printed = <<>>)
        /\ pc = "done" => (iter <= 4 /\ printed = <<Oscillation>>)

\* C23 witness: a later tick of that circuit (one that started from the on_points
\* a returned tick left, gate energized) has returned after four passes.
C23_Witness ==
    /\ Feedback("p-type") /\ nodes[1].state
    /\ pc = "done" /\ iter = 4 /\ printed = <<Oscillation>>
    /\ transistors[1].position \in on_points
    /\ transistors[1].state

-----------------------------------------------------------------------------
(* A tick with no source *)

\* C24: a tick that has returned in a circuit with no input node on and no clock
\* on, whatever on_points and flags it started from, printed nothing (Converged),
\* left on_points empty, every wire and every output node off, every n-type
\* transistor not conducting and every p-type transistor conducting.
C24_NoSourceAllOff ==
    (pc = "done" /\ ActiveSources = {}) =>
        /\ printed = <<>>
        /\ on_points = {}
        /\ \A i \in DOMAIN wires : ~wires[i].state
        /\ \A i \in Outputs : ~nodes[i].state
        /\ \A i \in DOMAIN transistors :
              transistors[i].state = (transistors[i].transistor_type = "p-type")

\* C24 witness: such a tick has returned after three passes, so it started from
\* flags left by energized gates, in a circuit with a wire, an output node and
\* transistors of both types.
C24_Witness ==
    /\ pc = "done" /\ ActiveSources = {} /\ iter = 3
    /\ wires # <<>> /\ Outputs # {}
    /\ \E i, j \in DOMAIN transistors :
          transistors[i].transistor_type = "n-type" /\ transistors[j].transistor_type = "p-type"

-----------------------------------------------------------------------------
(* on_points after a tick *)

\* C25: after every tick, on_points holds the position of every input node that
\* is on and of every clock that is on, and for every wire the start point is in
\* on_points iff the end point is, so that the wire's flag (on when either end is
\* energized) is on exactly when both ends are.
C25_SourcesAndWireClosure ==
    pc = "done" =>
        /\ ActiveSources \subseteq on_points
        /\ \A i \in DOMAIN wires :
              /\ wires[i].start_point \in on_points <=> wires[i].end_point \in on_points
              /\ wires[i].state <=> (/\ wires[i].start_point \in on_points
                                     /\ wires[i].end_point \in on_points)

\* C25 witness: a tick has returned with the clock on and the wire on, the wire
\* energized from its end point by the input node there, and no node on its
\* start point.
C25_Witness ==
    /\ pc = "done"
    /\ \E i \in DOMAIN clocks : clocks[i].state
    /\ \E i \in DOMAIN wires :
          /\ wires[i].state
          /\ wires[i].end_point \in ActiveSources
          /\ node_at_position(nodes, wires[i].start_point) = 0

-----------------------------------------------------------------------------
(* The number of passes *)

\* No clock toggled at the entry of the tick (a clock that toggles restarts its
\* counter at 0).
NoClockToggled == \A i \in DOMAIN clocks : clocks[i].frame_counter # 0

\* C26: no tick returns after its first pass; and a tick that started from a
\* tick that ended Converged, with no edit and no input change in between and no
\* clock toggling at its entry, returns Converged after exactly two passes.
C26_PassCount ==
    pc = "done" =>
        /\ iter >= 2
        /\ (snap.valid /\ NoClockToggled) => (iter = 2 /\ printed = <<>>)

\* C26 witness: such a following tick has returned after two passes, in a circuit
\* with a clock that is on and did not toggle, a transistor and a wire that is on.
C26_Witness ==
    /\ pc = "done" /\ snap.valid /\ iter = 2
    /\ clocks # <<>> /\ NoClockToggled /\ clocks[1].state
    /\ transistors # <<>>
    /\ \E i \in DOMAIN wires : wires[i].state

-----------------------------------------------------------------------------
(* Clock.update, one call at a time *)

\* The frequencies a file can name, zero and negative ones included.
FrequencyOptions == (0 - MaxFreq)..(MaxFreq + 1)

\* Two clocks as load_circuit builds them: any frequency and state, counter 0.
InitAdvance ==
    /\ \E f \in [1..2 -> FrequencyOptions], st \in [1..2 -> BOOLEAN] :
          clocks = [i \in 1..2 |-> [Clock(Pt(i), f[i]) EXCEPT !.state = st[i]]]
    /\ call = NoCall
    /\ wires = <<>> /\ nodes = <<>> /\ transistors = <<>>
    /\ on_points = {} /\ pc = "idle" /\ iter = 0
    /\ previous_states = <<>> /\ previous_previous_states = <<>> /\ current_states = <<>>
    /\ printed = <<>> /\ calls = <<>> /\ snap = NoSnap /\ instances = <<>>

\* One call of clocks[i].update(); call keeps the clock as it was before.
ClockAdvance(i) ==
    /\ clocks' = [clocks EXCEPT ![i] = ClockUpdate(clocks[i])]
    /\ call' = [op |-> "update", index |-> i, before |-> clocks[i]]
    /\ UNCHANGED <<wires, nodes, transistors, on_points, pc, iter, previous_states,
                   previous_previous_states, current_states, printed, calls, snap, instances>>

NextAdvance == \E i \in DOMAIN clocks : ClockAdvance(i)

SpecAdvance == InitAdvance /\ [][NextAdvance]_vars

\* The last call toggled its clock.
Toggled == clocks[call.index].state # call.before.state

-----------------------------------------------------------------------------
(* Node flags *)

\* Node.toggle on one node: an input node's flag is flipped and two calls in a
\* row restore it; an output node is returned as it was.
ToggleRule(n) ==
    IF n.node_type = "input"
    THEN /\ NodeToggle(n) = [n EXCEPT !.state = ~n.state]
         /\ NodeToggle(NodeToggle(n)) = n
    ELSE NodeToggle(n) = n

\* C28: Node.toggle flips the flag of every input node of the circuit and leaves
\* every output node as it is, and two toggles in a row give the input node back;
\* a step that changes the flag of an output node is a pass of a tick's loop (a
\* click changes none); and every tick that has returned has set each output
\* node's flag to whether its position is in on_points.
C28_NodeFlags ==
    /\ [](\A i \in DOMAIN nodes : ToggleRule(nodes[i]))
    /\ [][\A i \in Outputs : nodes'[i].state # nodes[i].state => pc = "loop"]_vars
    /\ [](pc = "done" => \A i \in Outputs : nodes[i].state <=> nodes[i].position \in on_points)

\* C28 witness: after a tick that turned an output node on, the input nodes have
\* been clicked off and the output node is still on.
C28_Witness ==
    /\ pc = "idle"
    /\ ActiveSources = {}
    /\ \E i \in DOMAIN nodes : nodes[i].node_type = "input"
    /\ \E i \in Outputs : nodes[i].state

-----------------------------------------------------------------------------
(* Placement clicks *)

\* The modes in which a left click places a component (in wire mode it starts
\* drawing a wire, in no mode it does nothing).
PlacementModes == {"input", "output", "transistor", "p_transistor", "clock"}

\* handle_event, left click at a grid position that holds no input node (the else
\* branch of the toggle), in the mode the last key press selected: the component
\* of the mode is appended, whatever the position holds already.
PlaceClick(mode, position) ==
    /\ pc \in {"idle", "done"}
    /\ Len(nodes) + Len(transistors) + Len(clocks) < MaxParts
    /\ LET i == node_at_position(nodes, position)
       IN  ~(i # 0 /\ nodes[i].node_type = "input")
    /\ nodes' = IF mode = "input" THEN Append(nodes, Node(position, "input"))
                ELSE IF mode = "output" THEN Append(nodes, Node(position, "output"))
                ELSE nodes
    /\ transistors' =
          IF mode = "transistor"
          THEN Append(transistors, Transistor(position, "n-type", "horizontal"))
          ELSE IF mode = "p_transistor"
          THEN Append(transistors, Transistor(position, "p-type", "horizontal"))
          ELSE transistors
    /\ clocks' = IF mode = "clock" THEN Append(clocks, Clock(position, CLOCK_FREQUENCY))
                 ELSE clocks
    /\ calls' = IF mode = "clock" THEN Append(calls, 0) ELSE calls
    /\ Edited
    /\ UNCHANGED wires

\* Circuit.__init__: the empty circuit.
InitPlace ==
    /\ wires = <<>> /\ nodes = <<>> /\ transistors = <<>> /\ clocks = <<>>
    /\ Fresh

\* The grid positions the clicks land on.
ClickPositions == {Pt(0), Pt(1)}

NextPlace ==
    \/ \E position \in ClickPositions : ClickInput(position)
    \/ \E mode \in PlacementModes, position \in ClickPositions : PlaceClick(mode, position)

SpecPlace == InitPlace /\ [][NextPlace]_vars

\* C29 as claimed: a placement click adds a node or a clock only on an empty grid
\* position, so that no two nodes and no two clocks are ever on the same point.
C29_Original ==
    /\ \A i, j \in DOMAIN nodes : nodes[i].position = nodes[j].position => i = j
    /\ \A i, j \in DOMAIN clocks : clocks[i].position = clocks[j].position => i = j

-----------------------------------------------------------------------------
(* save_circuit and load_circuit *)

\* json.dump writes a position tuple as an array; tuple() of the array json.load
\* returns is the position again.
JsonArray(point) == [array |-> point]
TupleOf(value) == value.array

\* The dictionary save_circuit dumps: per component the keys it names, in list
\* order.
SaveData(ws, ns, ts, cs) ==
    [nodes |-> [i \in DOMAIN ns |->
                   [type |-> ns[i].node_type, position |-> JsonArray(ns[i].position),
                    state |-> ns[i].state]],
     wires |-> [i \in DOMAIN ws |->
                   [start_point |-> JsonArray(ws[i].start_point),
                    end_point |-> JsonArray(ws[i].end_point), state |-> ws[i].state]],
     transistors |-> [i \in DOMAIN ts |->
                   [type |-> ts[i].transistor_type, position |-> JsonArray(ts[i].position),
                    state |-> ts[i].state, orientation |-> ts[i].orientation]],
     clocks |-> [i \in DOMAIN cs |->
                   [position |-> JsonArray(cs[i].position), state |-> cs[i].state,
                    frequency |-> cs[i].frequency]]]

\* load_circuit, one entry of each kind: the constructor, then the stored state.
LoadNode(d) == [Node(TupleOf(d.position), d.type) EXCEPT !.state = d.state]

LoadWire(d) == [Wire(TupleOf(d.start_point), TupleOf(d.end_point)) EXCEPT !.state = d.state]

\* Mutant: the stored conducting flag is not read; the constructor's stays.
LoadTransistor_Constructed(d) == Transistor(TupleOf(d.position), d.type, d.orientation)

LoadTransistor(d) ==
    [Transistor(TupleOf(d.position), d.type, d.orientation) EXCEPT !.state = d.state]

LoadClock(d) == [Clock(TupleOf(d.position), d.frequency) EXCEPT !.state = d.state]

\* The four lists load_circuit builds from a file's data.
LoadedFrom(data) ==
    [nodes |-> [i \in DOMAIN data.nodes |-> LoadNode(data.nodes[i])],
     wires |-> [i \in DOMAIN data.wires |-> LoadWire(data.wires[i])],
     transistors |-> [i \in DOMAIN data.transistors |-> LoadTransistor(data.transistors[i])],
     clocks |-> [i \in DOMAIN data.clocks |-> LoadClock(data.clocks[i])]]

\* save_circuit: the file is written (call holds its data and, for reference, the
\* four lists as they were); the circuit is not touched.
SaveCircuit ==
    /\ pc \in {"idle", "done"}
    /\ call' = [op |-> "save_circuit",
                data |-> SaveData(wires, nodes, transistors, clocks),
                saved |-> [nodes |-> nodes, wires |-> wires,
                           transistors |-> transistors, clocks |-> clocks]]
    /\ UNCHANGED <<wires, nodes, transistors, clocks, on_points, pc, iter, previous_states,
                   previous_previous_states, current_states, printed, calls, snap, instances>>

\* load_circuit on the file written last: the four lists are cleared and rebuilt.
LoadCircuit ==
    /\ pc \in {"idle", "done"}
    /\ call.op \in {"save_circuit", "load_circuit"}
    /\ LET loaded == LoadedFrom(call.data)
       IN  /\ nodes' = loaded.nodes
           /\ wires' = loaded.wires
           /\ transistors' = loaded.transistors
           /\ clocks' = loaded.clocks
           /\ calls' = [i \in DOMAIN loaded.clocks |-> 0]
    /\ call' = [call EXCEPT !.op = "load_circuit"]
    /\ pc' = "idle"
    /\ snap' = NoSnap
    /\ UNCHANGED <<on_points, iter, previous_states, previous_previous_states,
                   current_states, printed, instances>>

NextFile ==
    \/ TickStart
    \/ IterateLoop
    \/ \E i \in DOMAIN nodes : ClickInput(nodes[i].position)
    \/ SaveCircuit
    \/ LoadCircuit

SpecFile == InitBoard /\ [][NextFile]_vars

\* Four lists with every clock's counter back at 0 and all else as it is.
Restarted(c) ==
    [c EXCEPT !.clocks = [i \in DOMAIN c.clocks |-> [c.clocks[i] EXCEPT !.frame_counter = 0]]]

\* C30: for every circuit, loading the data save_circuit writes for it gives the
\* same four lists, in the same order and with every stored field (types,
\* positions, endpoints, on and conducting flags, orientations, clock states and
\* frequencies), every clock's counter being 0; and a load step replaces the
\* circuit by the one that was saved, so restarted, and leaves on_points as it was.
C30_SaveLoadRoundTrip ==
    /\ [](LoadedFrom(SaveData(wires, nodes, transistors, clocks))
            = Restarted([nodes |-> nodes, wires |-> wires,
                         transistors |-> transistors, clocks |-> clocks]))
    /\ [][LoadCircuit =>
            /\ [nodes |-> nodes', wires |-> wires',
                transistors |-> transistors', clocks |-> clocks'] = Restarted(call.saved)
            /\ on_points' = on_points]_vars

\* C30 witness: a load has just replaced the circuit by a saved one in which the
\* clock was on with its counter at 1, an n-type transistor conducting and the
\* wire on; the counter is 0 now, the circuit replaced was another one, and
\* on_points is not empty.
C30_Witness ==
    /\ call.op = "load_circuit" /\ pc = "idle"
    /\ [nodes |-> nodes, wires |-> wires,
        transistors |-> transistors, clocks |-> clocks] = Restarted(call.saved)
    /\ \E i \in DOMAIN call.saved.clocks :
          call.saved.clocks[i].frame_counter = 1 /\ call.saved.clocks[i].state
    /\ \E i \in DOMAIN transistors :
          transistors[i].transistor_type = "n-type" /\ transistors[i].state
    /\ \E i \in DOMAIN wires : wires[i].state
    /\ on_points # {}
    /\ \E i \in DOMAIN nodes : nodes[i].position \notin on_points /\ nodes[i].state


====
